---- MODULE Spec2Model ----
(***************************************************************************)
(* Model of rkubctl's manager.rs: fragment normalisation, pod listing,     *)
(* exact / fuzzy candidate resolution, the interactive selection among     *)
(* several candidates, and the sequential execution of the built kubectl   *)
(* commands.  The build modelled is the release build, the branches under  *)
(* cfg!(not(debug_assertions)): pods come from kubectl and commands run.   *)
(*                                                                         *)
(* Strings are sequences of one-character strings.  A panic (unwrap,       *)
(* expect, index out of range) ends the run in pc = "panicked", which is   *)
(* a non-zero exit status; exit_code records process::exit alone.          *)
(***************************************************************************)
EXTENDS Integers, Sequences, FiniteSets, TLC

\* ------------------------------------------------------------------ bounds
MaxPods == 3        \* lines in one `kubectl get po` output
MaxInputLen == 2    \* characters typed before the line feed
MaxFragLen == 3     \* length of a fragment given to filled_with_middle_name
MaxMidLen == 2      \* length of a middle name
MaxEnvLen == 3      \* length of the RKL_CANDIDATE_SIZE value
LongListingLen == 26  \* lines of the one long listing

\* ------------------------------------------------------ program constants
MAX_CANDIDATE_SIZE == 25
DEFAULT_CANDIDATE_SIZE == 5

\* ----------------------------------------------------------------- helpers
Min(a, b) == IF a < b THEN a ELSE b

SeqsUpTo(S, n) == UNION {[1..k -> S] : k \in 0..n}

Digits == {"0", "1", "2", "3", "4", "5", "6", "7", "8", "9"}

DigitVal(c) ==
  CASE c = "0" -> 0 [] c = "1" -> 1 [] c = "2" -> 2 [] c = "3" -> 3
    [] c = "4" -> 4 [] c = "5" -> 5 [] c = "6" -> 6 [] c = "7" -> 7
    [] c = "8" -> 8 [] c = "9" -> 9

IsDigit(c) == c \in Digits

\* the maximal trailing run of decimal digits of s
RECURSIVE TrailingDigits(_)
TrailingDigits(s) ==
  IF s = <<>> \/ ~IsDigit(s[Len(s)]) THEN <<>>
  ELSE Append(TrailingDigits(SubSeq(s, 1, Len(s) - 1)), s[Len(s)])

\* ------------------------------------------------- filled_with_middle_name
\* The regex (.*?)(\d*)$ matches from start position st with the lazy first
\* group ending just before k: `.` matches anything but a line feed, \d* takes
\* the rest, and $ is the end of the text.
RegexMatchAt(s, st, k) ==
  /\ k \in st..(Len(s) + 1)
  /\ \A i \in st..(k - 1) : s[i] # "\n"
  /\ \A i \in k..Len(s) : IsDigit(s[i])

RegexStarts(s) == {st \in 1..(Len(s) + 1) : \E k \in st..(Len(s) + 1) : RegexMatchAt(s, st, k)}

is_match(s) == RegexStarts(s) # {}

\* leftmost match, and within it the shortest first group
captures(s) ==
  LET st == CHOOSE x \in RegexStarts(s) : \A y \in RegexStarts(s) : x <= y
      ks == {k \in st..(Len(s) + 1) : RegexMatchAt(s, st, k)}
      k  == CHOOSE x \in ks : \A y \in ks : x <= y
  IN  [g1 |-> SubSeq(s, st, k - 1), g2 |-> SubSeq(s, k, Len(s))]

\* the middle name put after the whole fragment, digits included
filled_with_middle_name_appended(pod_name, middle_name) == pod_name \o middle_name

filled_with_middle_name(pod_name, middle_name) ==
  IF is_match(pod_name)
  THEN captures(pod_name).g1 \o middle_name \o captures(pod_name).g2
  ELSE pod_name

\* ------------------------------------------------------ get_candidate_size
\* str::parse::<usize>: an optional '+', then one or more ASCII digits.
\* (A value past usize::MAX is an error too; it takes 20 digits, more than
\* MaxEnvLen allows here.)
RECURSIVE DecValue(_)
DecValue(s) ==
  IF s = <<>> THEN 0
  ELSE 10 * DecValue(SubSeq(s, 1, Len(s) - 1)) + DigitVal(s[Len(s)])

parse_usize(s) ==
  LET body == IF s # <<>> /\ s[1] = "+" THEN Tail(s) ELSE s
  IN  IF body = <<>> \/ \E i \in 1..Len(body) : ~IsDigit(body[i])
      THEN [ok |-> FALSE, n |-> 0]
      ELSE [ok |-> TRUE, n |-> DecValue(body)]

\* the environment variable: unset, or set to a string
EnvUnset == [set |-> FALSE, val |-> <<>>]
EnvSet(s) == [set |-> TRUE, val |-> s]

\* the size without the cap of MAX_CANDIDATE_SIZE
get_candidate_size_unclamped(e) ==
  IF e.set /\ parse_usize(e.val).ok
  THEN (IF parse_usize(e.val).n < 1 THEN DEFAULT_CANDIDATE_SIZE ELSE parse_usize(e.val).n)
  ELSE DEFAULT_CANDIDATE_SIZE

get_candidate_size(e) ==
  IF e.set /\ parse_usize(e.val).ok
  THEN (IF parse_usize(e.val).n < 1 THEN DEFAULT_CANDIDATE_SIZE
        ELSE Min(parse_usize(e.val).n, MAX_CANDIDATE_SIZE))
  ELSE DEFAULT_CANDIDATE_SIZE

\* ---------------------------------------------------- get_candidate_option
Alphabet ==
  <<"a", "b", "c", "d", "e", "f", "g", "h", "i", "j", "k", "l", "m",
    "n", "o", "p", "q", "r", "s", "t", "u", "v", "w", "x", "y", "z">>

UpperAlphabet ==
  <<"A", "B", "C", "D", "E", "F", "G", "H", "I", "J", "K", "L", "M",
    "N", "O", "P", "Q", "R", "S", "T", "U", "V", "W", "X", "Y", "Z">>

Take(seq, n) == SubSeq(seq, 1, Min(n, Len(seq)))

get_candidate_option(candidate_size) ==
  Take(Alphabet, Min(MAX_CANDIDATE_SIZE, candidate_size))

\* ------------------------------------------------------- string operations
\* str::contains: needle occurs in hay as a contiguous substring
starts_with(hay, needle) ==
  Len(needle) <= Len(hay) /\ SubSeq(hay, 1, Len(needle)) = needle

contains(hay, needle) ==
  \E i \in 1..(Len(hay) - Len(needle) + 1) : SubSeq(hay, i, i + Len(needle) - 1) = needle

Whitespace == {" ", "\n", "\t", "\r"}

RECURSIVE trim_start(_)
trim_start(s) == IF s # <<>> /\ s[1] \in Whitespace THEN trim_start(Tail(s)) ELSE s

RECURSIVE trim_end(_)
trim_end(s) ==
  IF s # <<>> /\ s[Len(s)] \in Whitespace THEN trim_end(SubSeq(s, 1, Len(s) - 1)) ELSE s

trim(s) == trim_end(trim_start(s))

LowerChar(c) ==
  IF \E i \in 1..Len(UpperAlphabet) : UpperAlphabet[i] = c
  THEN Alphabet[CHOOSE i \in 1..Len(UpperAlphabet) : UpperAlphabet[i] = c]
  ELSE c

to_lowercase(s) == [i \in 1..Len(s) |-> LowerChar(s[i])]

\* --------------------------------------------------------------- PodInfo
Opaque == <<"-">>      \* a column of the listing other than the name

PodInfoFrom(t) ==
  [name |-> t[1], ready |-> t[2], status |-> t[3], restarts |-> t[4], age |-> t[5],
   ip |-> t[6], node |-> t[7], nominated_node |-> t[8], readiness_gates |-> t[9]]

\* a line of `kubectl get po -owide`, as its whitespace-separated fields
WideLine(n) == <<n, Opaque, Opaque, Opaque, Opaque, Opaque, Opaque, Opaque, Opaque>>
ShortLine(n) == <<n, Opaque, Opaque, Opaque, Opaque, Opaque, Opaque, Opaque>>

\* collect_tuple() of nine fields succeeds on exactly nine fields
convert_ok(line) == Len(line) = 9
convert_to_kub_info(line) == PodInfoFrom(line)

\* text.trim().split("\n"): the empty text splits into one empty line
SplitLines(raw) == IF raw = <<>> THEN << <<>> >> ELSE raw

list_pods_ok(raw) == \A i \in 1..Len(SplitLines(raw)) : convert_ok(SplitLines(raw)[i])
list_pods(raw) == [i \in 1..Len(SplitLines(raw)) |-> convert_to_kub_info(SplitLines(raw)[i])]

\* ------------------------------------------------------ Jaccard::new(1)
CharSet(s) == {s[i] : i \in 1..Len(s)}
Inter(a, b) == Cardinality(CharSet(a) \cap CharSet(b))
Union(a, b) == Cardinality(CharSet(a) \cup CharSet(b))

\* 1 - |A n B| / |A u B| compared without division:
\* distance(a, q) < distance(b, q)  iff  Inter(a,q) * Union(b,q) > Inter(b,q) * Union(a,q)
DistLess(a, b, q) == Inter(a, q) * Union(b, q) > Inter(b, q) * Union(a, q)
DistEq(a, b, q) == Inter(a, q) * Union(b, q) = Inter(b, q) * Union(a, q)
DistLeq(a, b, q) == DistLess(a, b, q) \/ DistEq(a, b, q)

\* ----------------------------------------------------- get_candidate_pod
\* an insertion that puts an element before its equals (a sort that is not stable)
RECURSIVE InsertUnstable(_, _, _)
InsertUnstable(sorted, x, q) ==
  IF sorted = <<>> THEN <<x>>
  ELSE IF DistLeq(x.name, sorted[1].name, q) THEN <<x>> \o sorted
  ELSE <<sorted[1]>> \o InsertUnstable(Tail(sorted), x, q)

\* sorted_by is a stable sort: an element goes after every element that does
\* not compare greater than it
RECURSIVE InsertStable(_, _, _)
InsertStable(sorted, x, q) ==
  IF sorted = <<>> THEN <<x>>
  ELSE IF DistLess(x.name, sorted[1].name, q) THEN <<x>> \o sorted
  ELSE <<sorted[1]>> \o InsertStable(Tail(sorted), x, q)

RECURSIVE sorted_by(_, _)
sorted_by(pods, q) ==
  IF pods = <<>> THEN <<>>
  ELSE InsertStable(sorted_by(SubSeq(pods, 1, Len(pods) - 1), q), pods[Len(pods)], q)

\* a match at the start of the name only
name_matches_prefix(pod_info, pod_name_slice) == starts_with(pod_info.name, pod_name_slice)

name_matches(pod_info, pod_name_slice) == contains(pod_info.name, pod_name_slice)

get_candidate_pod(all_pods, pod_name_slice, fuzzy_match) ==
  IF ~fuzzy_match
  THEN SelectSeq(all_pods, LAMBDA pod_info : name_matches(pod_info, pod_name_slice))
  ELSE Take(sorted_by(all_pods, pod_name_slice), MAX_CANDIDATE_SIZE)

\* ------------------------------------------------------- get_kub_command
get_kub_command(command, pod_name) ==
  CASE command = "DELETE"    -> [verb |-> "delete po", pod |-> pod_name, pipe |-> ""]
    [] command = "DESCRIBE"  -> [verb |-> "describe po", pod |-> pod_name, pipe |-> ""]
    [] command = "LOG"       -> [verb |-> "logs", pod |-> pod_name, pipe |-> ""]
    [] command = "IMAGE"     -> [verb |-> "describe po", pod |-> pod_name, pipe |-> "| grep Image"]
    [] command = "CONTAINER" -> [verb |-> "describe po", pod |-> pod_name, pipe |-> "| grep container"]
    [] command = "EXEC"      -> [verb |-> "exec -it", pod |-> pod_name, pipe |-> ""]

\* ------------------------------------------------ handle_multiple_results
\* the validity test of the typed choice, after trim and to_lowercase
input_rejected(choices, input_choice) ==
  Len(input_choice) # 1 \/ (~contains(choices, input_choice) /\ input_choice # <<"z">>)

\* the outcome of handle_multiple_results: what it built, and how it ended
\*   kind "exit"   process::exit(1)
\*   kind "panic"  an index past the end of candidate_pods
\*   kind "return" the commands handed back to run
handle_multiple_results(cmd, candidate_pods, candidate_size, input) ==
  LET choices == get_candidate_option(candidate_size)
      input_choice == to_lowercase(trim(input))
      Built(n) == [i \in 1..n |-> get_kub_command(cmd, candidate_pods[i].name)]
  IN  IF input_rejected(choices, input_choice)
      THEN [kind |-> "exit", built |-> <<>>]
      ELSE IF input_choice[1] = "z"
      THEN (IF candidate_size <= Len(candidate_pods)
            THEN [kind |-> "return", built |-> Built(candidate_size)]
            ELSE [kind |-> "panic", built |-> Built(Len(candidate_pods))])
      ELSE LET choice_index == CHOOSE i \in 1..Len(choices) : choices[i] = input_choice[1]
           IN  IF choice_index <= Len(candidate_pods)
               THEN [kind |-> "return",
                     built |-> <<get_kub_command(cmd, candidate_pods[choice_index].name)>>]
               ELSE [kind |-> "panic", built |-> <<>>]

\* ================================================================= state
VARIABLES
  pc,                   \* where the run is: "start", "exact", "fuzzy", "prompt",
                        \* "exec", "returned", "exited", "panicked"
  cmd,                  \* args.cmd: the kind of Command
  name,                 \* the name carried by the Command
  middle,               \* args.middle: [set, val]
  env,                  \* RKL_CANDIDATE_SIZE: [set, val]
  pod_name_slice,       \* get_kub_command's normalised fragment
  raw_output,           \* stdout of the latest `kubectl get po -owide | tail -n+2`
  all_pods,             \* what the latest list_pods() call returned (nothing if it panicked)
  list_calls,           \* how many times list_pods ran
  candidate_pods,       \* result of the exact pass
  candidate_pods_fuzzy, \* result of the fuzzy pass
  fuzzy_scored,         \* whether the Jaccard sort ran
  prompted,             \* whether handle_multiple_results was entered
  prompt_pods,          \* the candidates handed to handle_multiple_results
  candidate_size,       \* get_candidate_size() as read by handle_multiple_results
  input_choice,         \* the line read from stdin, trimmed and lowercased
  built,                \* commands built by get_kub_command so far
  kub_commands,         \* the commands get_kub_command handed back to run
  executed,             \* per executed command: the command and how it ended
  exit_code             \* argument of process::exit, -1 while none was called

vars ==
  <<pc, cmd, name, middle, env, pod_name_slice, raw_output, all_pods, list_calls,
    candidate_pods, candidate_pods_fuzzy, fuzzy_scored, prompted, prompt_pods,
    candidate_size, input_choice, built, kub_commands, executed, exit_code>>

\* ------------------------------------------------------- inputs of a run
PodNames == {<<"a">>, <<"b", "a">>, <<"b", "c">>, <<"b", "c", "2">>}

Fragments == {<<"a">>, <<"b", "2">>}

MiddleUnset == [set |-> FALSE, val |-> <<>>]
MiddleSet(m) == [set |-> TRUE, val |-> m]

Middles == {MiddleUnset, MiddleSet(<<"c">>)}

Commands == {"DELETE", "IMAGE"}

EnvValues == {EnvUnset, EnvSet(<<"2">>), EnvSet(<<"3">>)}

InputChars == {"a", "d", "Z", " "}

\* what kubectl may print: lines of distinct pods, at most one of them cut
\* short, or one long listing of more pods than the menu has letters
Lines == {WideLine(n) : n \in PodNames} \cup {ShortLine(<<"a">>)}

LongListing ==
  [i \in 1..LongListingLen |->
     WideLine(<<"p", Alphabet[((i - 1) % 26) + 1]>> \o (IF i > 26 THEN <<"p">> ELSE <<>>))]

ListerOutputs ==
  {raw \in SeqsUpTo(Lines, MaxPods) :
     \A i, j \in 1..Len(raw) : i # j => raw[i][1] # raw[j][1]}
  \cup {LongListing}

ExecOutcomes == {"ok", "failed_status", "spawn_error"}

\* ------------------------------------------------------------------ Init
Quiet ==
  /\ pod_name_slice = <<>>
  /\ raw_output = <<>>
  /\ all_pods = <<>>
  /\ list_calls = 0
  /\ candidate_pods = <<>>
  /\ candidate_pods_fuzzy = <<>>
  /\ fuzzy_scored = FALSE
  /\ prompted = FALSE
  /\ prompt_pods = <<>>
  /\ candidate_size = 0
  /\ input_choice = <<>>
  /\ built = <<>>
  /\ kub_commands = <<>>
  /\ executed = <<>>
  /\ exit_code = -1

Init ==
  /\ pc = "start"
  /\ cmd \in Commands
  /\ name \in Fragments
  /\ middle \in Middles
  /\ env \in EnvValues
  /\ Quiet

\* --------------------------------------------------------------- actions
\* get_kub_command, lines 94-102: the fragment, with the middle name if given
Normalize ==
  /\ pc = "start"
  /\ pod_name_slice' = IF middle.set THEN filled_with_middle_name(name, middle.val) ELSE name
  /\ pc' = "exact"
  /\ UNCHANGED <<cmd, name, middle, env, raw_output, all_pods, list_calls, candidate_pods,
                 candidate_pods_fuzzy, fuzzy_scored, prompted, prompt_pods, candidate_size,
                 input_choice, built, kub_commands, executed, exit_code>>

\* a branch that also falls back to the fuzzy pass on a single match
exact_branch_off_by_one(found) ==
  IF Len(found) <= 1 THEN "fuzzy" ELSE "prompt"

\* the three-way branch on the exact pass's result
exact_branch(found) ==
  IF Len(found) = 0 THEN "fuzzy" ELSE IF Len(found) > 1 THEN "prompt" ELSE "exec"

\* get_kub_command, lines 103-104 and 115-122: the exact pass and its branches
ExactPass ==
  /\ pc = "exact"
  /\ \E raw \in ListerOutputs :
       /\ raw_output' = raw
       /\ list_calls' = list_calls + 1
       /\ IF ~list_pods_ok(raw)
          THEN /\ pc' = "panicked"
               /\ all_pods' = <<>>
               /\ UNCHANGED <<candidate_pods, prompted, prompt_pods, built, kub_commands>>
          ELSE LET found == get_candidate_pod(list_pods(raw), pod_name_slice, FALSE)
               IN  /\ all_pods' = list_pods(raw)
                   /\ candidate_pods' = found
                   /\ pc' = exact_branch(found)
                   /\ IF exact_branch(found) = "fuzzy"
                      THEN UNCHANGED <<prompted, prompt_pods, built, kub_commands>>
                      ELSE IF exact_branch(found) = "prompt"
                      THEN /\ prompted' = TRUE
                           /\ prompt_pods' = found
                           /\ UNCHANGED <<built, kub_commands>>
                      ELSE /\ built' = <<get_kub_command(cmd, found[1].name)>>
                           /\ kub_commands' = <<get_kub_command(cmd, found[1].name)>>
                           /\ UNCHANGED <<prompted, prompt_pods>>
  /\ UNCHANGED <<cmd, name, middle, env, pod_name_slice, candidate_pods_fuzzy, fuzzy_scored,
                 candidate_size, input_choice, executed, exit_code>>

\* get_kub_command, lines 105-113: the fuzzy pass and its branches
FuzzyPass ==
  /\ pc = "fuzzy"
  /\ \E raw \in ListerOutputs :
       /\ raw_output' = raw
       /\ list_calls' = list_calls + 1
       /\ IF ~list_pods_ok(raw)
          THEN /\ pc' = "panicked"
               /\ all_pods' = <<>>
               /\ UNCHANGED <<candidate_pods_fuzzy, fuzzy_scored, prompted, prompt_pods,
                              exit_code>>
          ELSE LET found == get_candidate_pod(list_pods(raw), pod_name_slice, TRUE)
               IN  /\ all_pods' = list_pods(raw)
                   /\ candidate_pods_fuzzy' = found
                   /\ fuzzy_scored' = TRUE
                   /\ IF Len(found) = 0
                      THEN /\ pc' = "exited"
                           /\ exit_code' = 0
                           /\ UNCHANGED <<prompted, prompt_pods>>
                      ELSE /\ pc' = "prompt"
                           /\ prompted' = TRUE
                           /\ prompt_pods' = found
                           /\ UNCHANGED exit_code
  /\ UNCHANGED <<cmd, name, middle, env, pod_name_slice, candidate_pods, candidate_size,
                 input_choice, built, kub_commands, executed>>

\* handle_multiple_results: the menu, the line read from stdin, and the choice
HandleMultipleResults ==
  /\ pc = "prompt"
  /\ \E typed \in SeqsUpTo(InputChars, MaxInputLen) :
       LET line == typed \o <<"\n">>
           size == get_candidate_size(env)
           out  == handle_multiple_results(cmd, prompt_pods, size, line)
       IN  /\ input_choice' = to_lowercase(trim(line))
           /\ candidate_size' = size
           /\ built' = out.built
           /\ IF out.kind = "exit"
              THEN /\ pc' = "exited"
                   /\ exit_code' = 1
                   /\ UNCHANGED kub_commands
              ELSE IF out.kind = "panic"
              THEN /\ pc' = "panicked"
                   /\ UNCHANGED <<kub_commands, exit_code>>
              ELSE /\ pc' = "exec"
                   /\ kub_commands' = out.built
                   /\ UNCHANGED exit_code
  /\ UNCHANGED <<cmd, name, middle, env, pod_name_slice, raw_output, all_pods, list_calls,
                 candidate_pods, candidate_pods_fuzzy, fuzzy_scored, prompted, prompt_pods,
                 executed>>

\* a loop that stops at the first command that does not end well
run_step_abort_on_status(outcome, done, total) ==
  IF outcome # "ok" THEN "panicked"
  ELSE IF done = total THEN "returned" ELSE "exec"

\* where run's loop stands after one command: `sh -c` either runs (whatever
\* the command's own status) or cannot be started, and then expect() panics
run_step(outcome, done, total) ==
  IF outcome = "spawn_error" THEN "panicked"
  ELSE IF done = total THEN "returned" ELSE "exec"

\* run, lines 69-80: one turn of the loop over kub_commands; after the last
\* command run returns Ok
RunCommand ==
  /\ pc = "exec"
  /\ Len(executed) < Len(kub_commands)
  /\ \E outcome \in ExecOutcomes :
       /\ executed' = Append(executed, [command |-> kub_commands[Len(executed) + 1],
                                        outcome |-> outcome])
       /\ pc' = run_step(outcome, Len(executed) + 1, Len(kub_commands))
  /\ UNCHANGED <<cmd, name, middle, env, pod_name_slice, raw_output, all_pods, list_calls,
                 candidate_pods, candidate_pods_fuzzy, fuzzy_scored, prompted, prompt_pods,
                 candidate_size, input_choice, built, kub_commands, exit_code>>

Next == Normalize \/ ExactPass \/ FuzzyPass \/ HandleMultipleResults \/ RunCommand

Spec == Init /\ [][Next]_vars

\* ----------------------------------- filled_with_middle_name on its own
NormChars == {"a", "2", "\n"}

InitNorm ==
  /\ pc = "start"
  /\ cmd = "DELETE"
  /\ name \in SeqsUpTo(NormChars, MaxFragLen)
  /\ middle \in {MiddleUnset} \cup {MiddleSet(m) : m \in SeqsUpTo(NormChars, MaxMidLen)}
  /\ env = EnvUnset
  /\ Quiet

SpecNorm == InitNorm /\ [][Normalize]_vars

\* ---------------------------------------- get_candidate_size on its own
EnvChars == {"0", "1", "2", "6", "+", "-", "a", " "}

InitSize ==
  /\ pc = "size"
  /\ cmd = "DELETE"
  /\ name = <<>>
  /\ middle = MiddleUnset
  /\ env \in {EnvUnset} \cup {EnvSet(v) : v \in SeqsUpTo(EnvChars, MaxEnvLen)}
  /\ Quiet

GetCandidateSize ==
  /\ pc = "size"
  /\ candidate_size' = get_candidate_size(env)
  /\ pc' = "sized"
  /\ UNCHANGED <<cmd, name, middle, env, pod_name_slice, raw_output, all_pods, list_calls,
                 candidate_pods, candidate_pods_fuzzy, fuzzy_scored, prompted, prompt_pods,
                 input_choice, built, kub_commands, executed, exit_code>>

SpecSize == InitSize /\ [][GetCandidateSize]_vars

\* ================================================================ claims
\* the menu the claims speak of: one letter per displayed candidate
Displayed == Min(25, Min(candidate_size, Len(prompt_pods)))
Labels == Take(Alphabet, Displayed)
Answered == candidate_size > 0      \* handle_multiple_results has read its line
ValidChoice ==
  /\ Len(input_choice) = 1
  /\ input_choice[1] = "z" \/ \E i \in 1..Len(Labels) : Labels[i] = input_choice[1]
Position(pods, p) == CHOOSE k \in 1..Len(pods) : pods[k] = p
Terminated == pc \in {"returned", "exited", "panicked"}

\* C1: the typed choice (trimmed, lowercased) is accepted iff it is one
\* character, 'z' or one of the first min(25, window, candidates) letters; an
\* accepted letter yields exactly the candidate at its position; anything
\* else ends the process with a non-zero status and no command built or run.
C1_ChoiceValidity ==
  Answered =>
    /\ ValidChoice <=> kub_commands # <<>>
    /\ (ValidChoice /\ input_choice[1] # "z") =>
         kub_commands =
           <<get_kub_command(cmd,
               prompt_pods[CHOOSE i \in 1..Len(Labels) : Labels[i] = input_choice[1]].name)>>
    /\ ~ValidChoice =>
         /\ (pc = "exited" /\ exit_code >= 1) \/ pc = "panicked"
         /\ built = <<>>
         /\ executed = <<>>

\* C2: choosing 'z' with N = min(25, window, candidates) candidates displayed
\* hands back exactly N commands, one per displayed candidate, in label
\* order, and never fails.
C2_ApplyToAll ==
  (Answered /\ input_choice = <<"z">>) =>
    kub_commands = [i \in 1..Displayed |-> get_kub_command(cmd, prompt_pods[i].name)]

\* C3 as claimed: the prompt is entered only with more than one candidate, a
\* command is built without the prompt only with exactly one, and a candidate
\* set is never longer than the listing it came from.
C3_PromptOnlyForSeveral ==
  /\ prompted => Len(prompt_pods) > 1
  /\ (~prompted /\ built # <<>>) => Len(candidate_pods) = 1
  /\ Len(candidate_pods) <= Len(all_pods)
  /\ Len(candidate_pods_fuzzy) <= Len(all_pods)

\* C3 as amended: the prompt is entered with the exact pass's candidates
\* when they are more than one, and with the fuzzy pass's candidates (one or
\* more) when the exact pass found none; a command is built without the
\* prompt only when the exact pass found exactly one; a candidate set is
\* never longer than the listing it came from.
C3_PromptOnExactSeveralOrFuzzy ==
  /\ prompted =>
       \/ Len(candidate_pods) > 1 /\ prompt_pods = candidate_pods /\ ~fuzzy_scored
       \/ /\ Len(candidate_pods) = 0
          /\ Len(candidate_pods_fuzzy) >= 1
          /\ prompt_pods = candidate_pods_fuzzy
  /\ (~prompted /\ built # <<>>) => Len(candidate_pods) = 1
  /\ Len(candidate_pods) <= Len(all_pods)
  /\ Len(candidate_pods_fuzzy) <= Len(all_pods)

C3_Witness ==
  prompted /\ fuzzy_scored /\ Len(prompt_pods) = 1 /\ kub_commands # <<>>

\* C4: when the pod listing is empty (so that no pass can find a candidate)
\* the run goes on to the fuzzy pass and ends with exit code 0, no command
\* built or executed.
C4_NoMatchExitsCleanly ==
  (list_calls >= 1 /\ raw_output = <<>>) =>
    /\ pc \in {"fuzzy", "exited"}
    /\ pc = "exited" => exit_code = 0
    /\ built = <<>>
    /\ executed = <<>>

\* the fuzzy pass's result is in non-decreasing distance, and pods at equal
\* distance keep their order in the listing (pods at equal distance are
\* neighbours in a sorted result, so neighbours are all there is to compare)
FuzzySortedStable ==
  /\ \A i \in 1..Len(candidate_pods_fuzzy) :
       \E k \in 1..Len(all_pods) : all_pods[k] = candidate_pods_fuzzy[i]
  /\ \A i \in 1..(Len(candidate_pods_fuzzy) - 1) :
       LET this == candidate_pods_fuzzy[i]
           next == candidate_pods_fuzzy[i + 1]
       IN  /\ DistLeq(this.name, next.name, pod_name_slice)
           /\ DistEq(this.name, next.name, pod_name_slice)
                => Position(all_pods, this) < Position(all_pods, next)

\* C5 as claimed: the fuzzy pass returns at most min(window, 25, pods)
\* candidates, by non-decreasing distance, ties in listing order.
C5_FuzzyWithinWindow ==
  fuzzy_scored =>
    /\ Len(candidate_pods_fuzzy) <= Min(get_candidate_size(env), Min(25, Len(all_pods)))
    /\ FuzzySortedStable

\* C5 as amended: the fuzzy pass returns at most min(25, pods) candidates
\* (the window size plays no part in it), by non-decreasing distance, ties
\* in listing order.
C5_FuzzyWithinCap ==
  fuzzy_scored =>
    /\ Len(candidate_pods_fuzzy) <= Min(25, Len(all_pods))
    /\ FuzzySortedStable

C5_Witness ==
  /\ fuzzy_scored
  /\ Len(all_pods) > 25
  /\ Len(candidate_pods_fuzzy) = 25
  /\ \E i \in 1..24 :
       DistEq(candidate_pods_fuzzy[i].name, candidate_pods_fuzzy[i + 1].name, pod_name_slice)

\* C6 as claimed: a run lists the pods at most once.
C6_OneListing == list_calls <= 1

\* C6 as amended: a run lists the pods at most twice: once for the exact
\* pass and, only when the exact pass found nothing, once more for the fuzzy
\* pass, whose candidates come from that second listing.
C6_AtMostTwoListings ==
  /\ list_calls <= 2
  /\ pc \in {"start", "exact"} <=> list_calls = 0
  /\ candidate_pods # <<>> => list_calls = 1
  /\ fuzzy_scored => list_calls = 2
  /\ list_calls = 2 => pc # "fuzzy"

\* the second listing held a pod that the exact pass would have matched
C6_Witness ==
  /\ list_calls = 2
  /\ fuzzy_scored
  /\ \E i \in 1..Len(candidate_pods_fuzzy) :
       contains(candidate_pods_fuzzy[i].name, pod_name_slice)

\* the commands are run one at a time in the order they were handed back
RunInOrder ==
  /\ Len(executed) <= Len(kub_commands)
  /\ \A i \in 1..Len(executed) : executed[i].command = kub_commands[i]

\* C7 as claimed: after 'z' the commands run one at a time in order, and
\* whatever goes wrong with one of them every later one is still run.
C7_BatchNeverAborts ==
  /\ RunInOrder
  /\ (input_choice = <<"z">> /\ Terminated /\ kub_commands # <<>>) =>
       Len(executed) = Len(kub_commands)

\* C7 as amended: after 'z' the commands run one at a time in order; a
\* command that runs and ends with a failure status does not stop the later
\* ones; a command that cannot be started ends the run at once (a panic)
\* and no later command is run.
C7_BatchAbortsOnlyOnSpawnError ==
  /\ RunInOrder
  /\ \A i \in 1..Len(executed) :
       executed[i].outcome = "spawn_error" => (i = Len(executed) /\ pc = "panicked")
  /\ (Terminated /\ kub_commands # <<>>) =>
       \/ Len(executed) = Len(kub_commands)
       \/ executed # <<>> /\ executed[Len(executed)].outcome = "spawn_error"
  /\ pc = "returned" => Len(executed) = Len(kub_commands)

C7_Witness ==
  /\ input_choice = <<"z">>
  /\ pc = "returned"
  /\ Len(executed) >= 2
  /\ executed[1].outcome = "failed_status"

\* C8: when some pod's name contains the fragment, the exact pass returns
\* exactly the pods whose name contains it, in listing order, and the fuzzy
\* scoring is not run.
C8_ExactPass ==
  candidate_pods # <<>> =>
    /\ \A i \in 1..Len(candidate_pods) :
         /\ contains(candidate_pods[i].name, pod_name_slice)
         /\ \E k \in 1..Len(all_pods) : all_pods[k] = candidate_pods[i]
    /\ \A k \in 1..Len(all_pods) :
         contains(all_pods[k].name, pod_name_slice) =>
           \E i \in 1..Len(candidate_pods) : candidate_pods[i] = all_pods[k]
    /\ \A i, j \in 1..Len(candidate_pods) :
         i < j => Position(all_pods, candidate_pods[i]) < Position(all_pods, candidate_pods[j])
    /\ ~fuzzy_scored
    /\ candidate_pods_fuzzy = <<>>

C8_Witness ==
  /\ Len(candidate_pods) = 2
  /\ Len(all_pods) = 3
  /\ ~contains(all_pods[1].name, pod_name_slice)
  /\ ~starts_with(candidate_pods[1].name, pod_name_slice)
  /\ Terminated

\* the fragment split at its maximal trailing run of digits
Suffix(f) == TrailingDigits(f)
Prefix(f) == SubSeq(f, 1, Len(f) - Len(Suffix(f)))
Normalized == pc = "exact" /\ middle.set

\* C9 as claimed: for every fragment and every middle name the result is
\* prefix + middle + suffix, its length is the sum of the two lengths, and
\* its trailing digit run is the fragment's.
C9_Normalize ==
  Normalized =>
    /\ pod_name_slice = Prefix(name) \o middle.val \o Suffix(name)
    /\ Len(pod_name_slice) = Len(name) + Len(middle.val)
    /\ TrailingDigits(pod_name_slice) = Suffix(name)

\* C9 as amended: for every fragment without a line feed and every middle
\* name the result is prefix + middle + suffix and its length is the sum of
\* the two lengths; its trailing digit run is the fragment's when the middle
\* name does not end in a digit.
C9_NormalizeSingleLine ==
  (Normalized /\ "\n" \notin CharSet(name)) =>
    /\ pod_name_slice = Prefix(name) \o middle.val \o Suffix(name)
    /\ Len(pod_name_slice) = Len(name) + Len(middle.val)
    /\ (middle.val = <<>> \/ ~IsDigit(middle.val[Len(middle.val)])) =>
         TrailingDigits(pod_name_slice) = Suffix(name)

C9_Witness ==
  /\ Normalized
  /\ name = <<"2", "a", "2">>
  /\ middle.val = <<"a">>
  /\ pod_name_slice = <<"2", "a", "a", "2">>

\* an integer as a person writes it: an optional sign, then digits
IsIntegerText(s) ==
  LET body == IF s # <<>> /\ s[1] \in {"+", "-"} THEN Tail(s) ELSE s
  IN  body # <<>> /\ \A i \in 1..Len(body) : IsDigit(body[i])

IntegerValue(s) ==
  IF s[1] = "-" THEN 0 - DecValue(Tail(s))
  ELSE IF s[1] = "+" THEN DecValue(Tail(s)) ELSE DecValue(s)

\* C10: the window size is 5 when RKL_CANDIDATE_SIZE is unset, is not an
\* integer or is below 1, and min(value, 25) otherwise; so it is always
\* within 1..25.
C10_WindowSize ==
  pc = "sized" =>
    /\ candidate_size \in 1..25
    /\ IF ~env.set \/ ~IsIntegerText(env.val) \/ IntegerValue(env.val) < 1
       THEN candidate_size = 5
       ELSE candidate_size = Min(IntegerValue(env.val), 25)

C10_Witness ==
  /\ pc = "sized"
  /\ env.set
  /\ IsIntegerText(env.val)
  /\ IntegerValue(env.val) > 25
  /\ candidate_size = 25

====
